---- MODULE Spec2Model ----
(***************************************************************************)
(* Model of utils/pointnet2_utils.py: the autograd Function wrappers       *)
(* (FurthestPointSampling, GatherPoints, ThreeNN, ThreeInterpolate,        *)
(* GroupPoints, BallQuery) and the grouping modules (QueryAndGroup,        *)
(* GroupAll).                                                              *)
(*                                                                         *)
(* A Python value is a record with a `kind` field.  A tensor carries its   *)
(* shape, its elements by logical index (a tuple, 1-based) and whether it  *)
(* is contiguous in memory.  Floats are abstracted to integers.  Index     *)
(* VALUES stored in index tensors are 0-based, as in the code.             *)
(*                                                                         *)
(* Every forward/backward is one operator returning what the call did:     *)
(* the exception it raised (or ""), the value it returned, the attributes  *)
(* it saved on ctx, and the external kernel entry point it reached with    *)
(* the buffer exactly as handed over.  Actions apply these operators to    *)
(* inputs drawn from bounded sets.                                         *)
(***************************************************************************)
EXTENDS Integers, Sequences, FiniteSets, TLC

\* ------------------------------------------------------------ bounds
MaxB == 2
MaxC == 2
MaxN == 2
MaxK == 2
MaxSample == 4
MaxCtx == 2

VARIABLES ctx, call, modcall
vars == <<ctx, call, modcall>>

\* ------------------------------------------------------ Python values
None == [kind |-> "None"]
Scalar(v) == [kind |-> "scalar", val |-> v]
FunctionObject(name) == [kind |-> "function", name |-> name]
TupleOf(items) == [kind |-> "tuple", items |-> items]

\* Names bound in the module's global namespace by its top-level statements.
ModuleGlobals ==
    {"torch", "Variable", "Function", "F", "nn", "pdist2", "PDist2Order",
     "namedtuple", "pt_utils", "List", "Tuple", "pointnet",
     "RandomDropout", "FurthestPointSampling", "furthest_point_sample",
     "GatherPoints", "gather_points", "ThreeNN", "three_nn",
     "ThreeInterpolate", "three_interpolate", "GroupPoints", "group_points",
     "BallQuery", "ball_query", "QueryAndGroup", "GroupAll"}

NameBound(name) == name \in ModuleGlobals

\* ------------------------------------------------------------ tensors
RECURSIVE Indices(_)
Indices(shape) ==
    IF shape = <<>> THEN {<<>>}
    ELSE {<<i>> \o r : i \in 1..Head(shape), r \in Indices(Tail(shape))}

RECURSIVE Numel(_)
Numel(shape) == IF shape = <<>> THEN 1 ELSE Head(shape) * Numel(Tail(shape))

\* Row-major offset (0-based) of logical index ix in a contiguous buffer.
RECURSIVE Flat(_, _)
Flat(ix, shape) ==
    IF ix = <<>> THEN 0
    ELSE (Head(ix) - 1) * Numel(Tail(shape)) + Flat(Tail(ix), Tail(shape))

RECURSIVE SumFn(_)
SumFn(f) ==
    IF DOMAIN f = {} THEN 0
    ELSE LET x == CHOOSE y \in DOMAIN f : TRUE
         IN f[x] + SumFn([y \in DOMAIN f \ {x} |-> f[y]])

Tensor(shape, data, contig) ==
    [kind |-> "Tensor", shape |-> shape, data |-> data, contig |-> contig]

Full(shape, v) == Tensor(shape, [ix \in Indices(shape) |-> v], TRUE)

IsTensor(v) == v.kind = "Tensor"
Size(t, d) == t.shape[d + 1]
IsContiguous(t) == t.contig
Contiguous(t) == [t EXCEPT !.contig = TRUE]

\* torch.cuda.FloatTensor(*shape) / torch.cuda.IntTensor(*shape): a fresh
\* contiguous buffer whose memory is NOT initialised; g is what it happens to hold.
CudaTensor(shape, g) == Full(shape, g)
Zero(t) == [t EXCEPT !.data = [ix \in DOMAIN t.data |-> 0]]

Swap23(s) == [i \in DOMAIN s |-> IF i = 2 THEN s[3] ELSE IF i = 3 THEN s[2] ELSE s[i]]

\* t.transpose(1, 2): a view; contiguous only if a swapped dimension has size 1.
Transpose12(t) ==
    LET shape == Swap23(t.shape)
    IN Tensor(shape, [ix \in Indices(shape) |-> t.data[Swap23(ix)]],
              t.contig /\ (t.shape[2] = 1 \/ t.shape[3] = 1))

\* t.unsqueeze(d) with the new dimension at (1-based) position pos.
InsertAt(s, pos, v) == SubSeq(s, 1, pos - 1) \o <<v>> \o SubSeq(s, pos, Len(s))
RemoveAt(s, pos) == SubSeq(s, 1, pos - 1) \o SubSeq(s, pos + 1, Len(s))
Unsqueeze(t, pos) ==
    LET shape == InsertAt(t.shape, pos, 1)
    IN Tensor(shape, [ix \in Indices(shape) |-> t.data[RemoveAt(ix, pos)]], t.contig)

\* torch.cat([a, b], dim=1): a new contiguous tensor.
Cat1(a, b) ==
    LET shape == [a.shape EXCEPT ![2] = a.shape[2] + b.shape[2]]
    IN Tensor(shape,
              [ix \in Indices(shape) |->
                  IF ix[2] <= a.shape[2] THEN a.data[ix]
                  ELSE b.data[[ix EXCEPT ![2] = ix[2] - a.shape[2]]]],
              TRUE)

\* a -= b, b broadcast along its dimensions of size 1.
SubBroadcast(a, b) ==
    [a EXCEPT !.data =
        [ix \in DOMAIN a.data |->
            a.data[ix] - b.data[[i \in DOMAIN ix |-> IF b.shape[i] = 1 THEN 1 ELSE ix[i]]]]]

ISqrt(x) == CHOOSE r \in 0..x : r * r <= x /\ (r + 1) * (r + 1) > x
\* torch.sqrt(t): element-wise, a new contiguous tensor.
Sqrt(t) == Tensor(t.shape, [ix \in DOMAIN t.data |-> ISqrt(t.data[ix])], TRUE)

\* ------------------------------------------------ what one call did
\* An external entry point reached: its tensor inputs, the output buffer exactly
\* as handed over, and that buffer as the kernel left it.
NoKernel == [entry |-> "", inputs |-> <<>>, buf |-> None, out |-> None]
KernelCall(entry, inputs, buf, out) ==
    [entry |-> entry, inputs |-> inputs, buf |-> buf, out |-> out]

NoSaved == [attr |-> "", idx |-> None, weight |-> None, C |-> 0, N |-> 0]
Saved(attr, idx, weight, C, N) ==
    [attr |-> attr, idx |-> idx, weight |-> weight, C |-> C, N |-> N]

Outcome(exc, ret, saved, kernel) ==
    [exc |-> exc, ret |-> ret, saved |-> saved, kernel |-> kernel]
Raise(exc, saved) == Outcome(exc, None, saved, NoKernel)

\* What the memory of an uninitialised buffer may hold.
Garbage == {0, 1}

\* ----------------------------------------------- external kernels
\* The compiled kernels are not part of this file; they are modelled from
\* their documented meaning.  `pick` is the (opaque) result of a spatial search.
furthest_point_sampling(npoint, xyz, output, pick) ==
    [output EXCEPT !.data = [ix \in DOMAIN output.data |-> pick]]

InRange(i, n) == i >= 0 /\ i < n

gather_points(points, idx, output) ==
    [output EXCEPT !.data =
        [ix \in DOMAIN output.data |->
            LET src == idx.data[<<ix[1], ix[3]>>]
            IN IF InRange(src, points.shape[3])
               THEN points.data[<<ix[1], ix[2], src + 1>>] ELSE 0]]

gather_points_grad(grad_out, idx, grad_points) ==
    [grad_points EXCEPT !.data =
        [ix \in DOMAIN grad_points.data |->
            grad_points.data[ix] +
            SumFn([j \in {k \in 1..idx.shape[2] : idx.data[<<ix[1], k>>] = ix[3] - 1} |->
                      grad_out.data[<<ix[1], ix[2], j>>]])]]

\* ------------------------------------------- FurthestPointSampling
FurthestPointSamplingForward(xyz, npoint, g, pick) ==
    LET output == CudaTensor(<<Size(xyz, 0), npoint>>, g)
    IN IF ~NameBound("pointnet") THEN Raise("NameError", NoSaved)
       ELSE LET filled == furthest_point_sampling(npoint, xyz, output, pick)
            IN Outcome("", filled, NoSaved,
                       KernelCall("pointnet.furthest_point_sampling", <<xyz>>, output, filled))

FurthestPointSamplingBackward(saved) ==
    Outcome("", TupleOf(<<None, None>>), saved, NoKernel)

\* ---------------------------------------------------- GatherPoints
GatherPointsForward(points, idx, g) ==
    LET B == points.shape[1]
        C == points.shape[2]
        N == points.shape[3]
        output == CudaTensor(<<B, C, Size(idx, 1)>>, g)
    IN IF ~NameBound("pointnet") THEN Raise("NameError", NoSaved)
       ELSE LET filled == gather_points(points, idx, output)
            IN Outcome("", filled, Saved("for_backwards", idx, None, C, N),
                       KernelCall("pointnet.gather_points", <<points, idx>>, output, filled))

\* GatherPoints.backward sizing the gradient by the number of gathered points
\* (idx.size(1)) instead of the saved source extent N.
GatherPointsBackwardIdxExtent(saved, grad_out, g) ==
    IF saved.attr # "for_backwards" THEN Raise("AttributeError", saved)
    ELSE LET idx == saved.idx
             grad_points == CudaTensor(<<idx.shape[1], saved.C, idx.shape[2]>>, g)
             filled == gather_points_grad(grad_out, idx, grad_points)
         IN Outcome("", TupleOf(<<filled, None>>), saved,
                    KernelCall("pointnet.gather_points_grad", <<grad_out, idx>>,
                               grad_points, filled))

GatherPointsBackward(saved, grad_out, g) ==
    IF saved.attr # "for_backwards" THEN Raise("AttributeError", saved)
    ELSE LET idx == saved.idx
             B == idx.shape[1]
             grad_points == CudaTensor(<<B, saved.C, saved.N>>, g)
         IN IF ~NameBound("pointnet") THEN Raise("NameError", saved)
            ELSE LET filled == gather_points_grad(grad_out, idx, grad_points)
                 IN Outcome("", TupleOf(<<filled, None>>), saved,
                            KernelCall("pointnet.gather_points_grad", <<grad_out, idx>>,
                                       grad_points, filled))

\* --------------------------------------- kernels of the other binding
three_nn_wrapper(unknown, known, dist2, idx, d2, pick) ==
    <<[dist2 EXCEPT !.data = [ix \in DOMAIN dist2.data |-> d2]],
      [idx EXCEPT !.data = [ix \in DOMAIN idx.data |-> pick]]>>

three_interpolate_wrapper(points, idx, weight, output) ==
    [output EXCEPT !.data =
        [ix \in DOMAIN output.data |->
            SumFn([l \in 1..3 |->
                LET src == idx.data[<<ix[1], ix[3], l>>]
                IN IF InRange(src, points.shape[3])
                   THEN points.data[<<ix[1], ix[2], src + 1>>] * weight.data[<<ix[1], ix[3], l>>]
                   ELSE 0])]]

three_interpolate_grad_wrapper(grad_out, idx, weight, grad_points) ==
    [grad_points EXCEPT !.data =
        [ix \in DOMAIN grad_points.data |->
            grad_points.data[ix] +
            SumFn([q \in {p \in (1..idx.shape[2]) \X (1..3) :
                             idx.data[<<ix[1], p[1], p[2]>>] = ix[3] - 1} |->
                      grad_out.data[<<ix[1], ix[2], q[1]>>] * weight.data[<<ix[1], q[1], q[2]>>]])]]

group_points_wrapper(points, idx, output) ==
    [output EXCEPT !.data =
        [ix \in DOMAIN output.data |->
            LET src == idx.data[<<ix[1], ix[3], ix[4]>>]
            IN IF InRange(src, points.shape[3])
               THEN points.data[<<ix[1], ix[2], src + 1>>] ELSE 0]]

group_points_grad_wrapper(grad_out, idx, grad_points) ==
    [grad_points EXCEPT !.data =
        [ix \in DOMAIN grad_points.data |->
            grad_points.data[ix] +
            SumFn([q \in {p \in (1..idx.shape[2]) \X (1..idx.shape[3]) :
                             idx.data[<<ix[1], p[1], p[2]>>] = ix[3] - 1} |->
                      grad_out.data[<<ix[1], ix[2], q[1], q[2]>>]])]]

\* The kernel fills nsample slots per centre, laid out as (B, npoint, nsample),
\* into whatever buffer it is handed, and hands that buffer back.
ball_query(radius, nsample, xyz, new_xyz, idx, pick) ==
    LET written == Size(xyz, 0) * Size(new_xyz, 1) * nsample
    IN [idx EXCEPT !.data =
           [ix \in DOMAIN idx.data |->
               IF Flat(ix, idx.shape) < written THEN pick ELSE idx.data[ix]]]

\* ---------------------------------------------------------- ThreeNN
ThreeNNForward(unknown, known, g, d2, pick) ==
    IF ~IsContiguous(unknown) \/ ~IsContiguous(known) THEN Raise("AssertionError", NoSaved)
    ELSE LET B == unknown.shape[1]
             N == unknown.shape[2]
             dist2 == CudaTensor(<<B, N, 3>>, g)
             idx == CudaTensor(<<B, N, 3>>, g)
             out == three_nn_wrapper(unknown, known, dist2, idx, d2, pick)
         IN IF ~NameBound("pointnet2") THEN Raise("NameError", NoSaved)
            ELSE Outcome("", TupleOf(<<Sqrt(out[1]), out[2]>>), NoSaved,
                         KernelCall("pointnet2.three_nn_wrapper", <<unknown, known>>,
                                    TupleOf(<<dist2, idx>>), TupleOf(out)))

ThreeNNBackward(saved) ==
    Outcome("", TupleOf(<<None, None>>), saved, NoKernel)

\* ------------------------------------------------- ThreeInterpolate
ThreeInterpolateForward(points, idx, weight, g) ==
    IF ~IsContiguous(points) \/ ~IsContiguous(idx) \/ ~IsContiguous(weight)
    THEN Raise("AssertionError", NoSaved)
    ELSE LET B == points.shape[1]
             c == points.shape[2]
             m == points.shape[3]
             n == Size(idx, 1)
             saved == Saved("three_interpolate_for_backward", idx, weight, 0, m)
             output == CudaTensor(<<B, c, n>>, g)
         IN IF ~NameBound("pointnet2") THEN Raise("NameError", saved)
            ELSE LET filled == three_interpolate_wrapper(points, idx, weight, output)
                 IN Outcome("", filled, saved,
                            KernelCall("pointnet2.three_interpolate_wrapper",
                                       <<points, idx, weight>>, output, filled))

ThreeInterpolateBackward(saved, grad_out, g) ==
    IF saved.attr # "three_interpolate_for_backward" THEN Raise("AttributeError", saved)
    ELSE LET B == grad_out.shape[1]
             c == grad_out.shape[2]
             grad_points == Zero(CudaTensor(<<B, c, saved.N>>, g))
             grad_out_data == Contiguous(grad_out)
         IN IF ~NameBound("pointnet2") THEN Raise("NameError", saved)
            ELSE LET filled == three_interpolate_grad_wrapper(grad_out_data, saved.idx,
                                                              saved.weight, grad_points)
                 IN Outcome("", TupleOf(<<filled, None, None>>), saved,
                            KernelCall("pointnet2.three_interpolate_grad_wrapper",
                                       <<grad_out_data, saved.idx, saved.weight>>,
                                       grad_points, filled))

\* ------------------------------------------------------ GroupPoints
GroupPointsForward(points, idx, g) ==
    IF ~IsContiguous(points) \/ ~IsContiguous(idx) THEN Raise("AssertionError", NoSaved)
    ELSE LET B == idx.shape[1]
             npoints == idx.shape[2]
             nsample == idx.shape[3]
             C == points.shape[2]
             N == points.shape[3]
             output == CudaTensor(<<B, C, npoints, nsample>>, g)
         IN IF ~NameBound("pointnet2") THEN Raise("NameError", NoSaved)
            ELSE LET filled == group_points_wrapper(points, idx, output)
                 IN Outcome("", filled, Saved("for_backwards", idx, None, 0, N),
                            KernelCall("pointnet2.group_points_wrapper", <<points, idx>>,
                                       output, filled))

GroupPointsBackward(saved, grad_out, g) ==
    IF saved.attr # "for_backwards" THEN Raise("AttributeError", saved)
    ELSE LET B == grad_out.shape[1]
             C == grad_out.shape[2]
             grad_points == Zero(CudaTensor(<<B, C, saved.N>>, g))
             grad_out_data == Contiguous(grad_out)
         IN IF ~NameBound("pointnet2") THEN Raise("NameError", saved)
            ELSE LET filled == group_points_grad_wrapper(grad_out_data, saved.idx, grad_points)
                 IN Outcome("", TupleOf(<<filled, None>>), saved,
                            KernelCall("pointnet2.group_points_grad_wrapper",
                                       <<grad_out_data, saved.idx>>, grad_points, filled))

\* -------------------------------------------------------- BallQuery
\* Writing past the end of the buffer is undefined: the call may return as if
\* nothing happened or die with a device fault.
OverflowOutcomes == {"", "RuntimeError"}

BallQueryForward(radius, nsample, xyz, new_xyz, g, pick, ub) ==
    LET idx == CudaTensor(<<Size(xyz, 0), Size(new_xyz, 1), 3>>, g)
        needed == Size(xyz, 0) * Size(new_xyz, 1) * nsample
    IN IF ~NameBound("pointnet") THEN Raise("NameError", NoSaved)
       ELSE LET filled == ball_query(radius, nsample, xyz, new_xyz, idx, pick)
                fault == IF needed > Numel(idx.shape) THEN ub ELSE ""
            IN Outcome(fault, IF fault = "" THEN filled ELSE None, NoSaved,
                       KernelCall("pointnet.ball_query", <<xyz, new_xyz>>, idx, filled))

\* BallQuery.backward returning one slot too few.
BallQueryBackwardThreeSlots(saved) ==
    Outcome("", TupleOf(<<None, None, None>>), saved, NoKernel)

BallQueryBackward(saved) ==
    Outcome("", TupleOf(<<None, None, None, None>>), saved, NoKernel)

\* ---------------------------------------------------- QueryAndGroup
ModOutcome(exc, ret) == [exc |-> exc, ret |-> ret]

QueryAndGroupForward(radius, nsample, use_xyz, xyz, new_xyz, points, g, pick, ub) ==
    LET q == BallQueryForward(radius, nsample, xyz, new_xyz, g, pick, ub)
        idx == q.ret
        xyz_trans == Contiguous(Transpose12(xyz))
        gx == GroupPointsForward(xyz_trans, idx, g)
        grouped_xyz == SubBroadcast(gx.ret, Unsqueeze(Transpose12(new_xyz), 4))
        gp == GroupPointsForward(points, idx, g)
    IN IF q.exc # "" THEN ModOutcome(q.exc, None)
       ELSE IF gx.exc # "" THEN ModOutcome(gx.exc, None)
       ELSE IF points # None
            THEN IF gp.exc # "" THEN ModOutcome(gp.exc, None)
                 ELSE IF use_xyz THEN ModOutcome("", Cat1(grouped_xyz, gp.ret))
                 ELSE ModOutcome("", FunctionObject("group_points"))
            ELSE ModOutcome("", grouped_xyz)

\* --------------------------------------------------------- GroupAll
GroupAllForward(use_xyz, xyz, new_xyz, points) ==
    LET grouped_xyz == Unsqueeze(Transpose12(xyz), 3)
        grouped_points == Unsqueeze(points, 3)
    IN IF points # None
       THEN IF use_xyz THEN ModOutcome("", Cat1(grouped_xyz, grouped_points))
            ELSE ModOutcome("", FunctionObject("group_points"))
       ELSE ModOutcome("", grouped_xyz)

\* ------------------------------------------------------------ inputs
\* Feature tensor (B, C, N): each element holds its (1-based) source position.
Features(B, C, N, ct) ==
    Tensor(<<B, C, N>>, [ix \in Indices(<<B, C, N>>) |-> ix[3]], ct)
\* Point cloud (B, N, 3): point n sits at (n-1, n-1, n-1).
Xyz(B, N, ct) ==
    Tensor(<<B, N, 3>>, [ix \in Indices(<<B, N, 3>>) |-> ix[2] - 1], ct)
\* Index tensors into a source of extent N: valid positions, rotated by off.
Idx2(B, k, N, off, ct) ==
    Tensor(<<B, k>>, [ix \in Indices(<<B, k>>) |-> (ix[2] - 1 + off) % N], ct)
Idx3(B, n, s, N, off, ct) ==
    Tensor(<<B, n, s>>, [ix \in Indices(<<B, n, s>>) |-> (ix[2] + ix[3] - 2 + off) % N], ct)
Weights(B, n, ct) == [Full(<<B, n, 3>>, 1) EXCEPT !.contig = ct]

Radii == {1, 2}
SquaredDistances == {0, 1, 4}

\* The input ranges of a run: every shape and layout, or same-shaped
\* contiguous calls that differ only in source extent and indices.
Wide == [B |-> 1..MaxB, C |-> 1..MaxC, K |-> 1..MaxK, S |-> 1..MaxSample,
         ct |-> BOOLEAN, g |-> Garbage]
Narrow == [B |-> {1}, C |-> {1}, K |-> {1}, S |-> {1}, ct |-> {TRUE}, g |-> {0}]

\* -------------------------------------------------------------- state
\* ctx[s]: the attributes saved on ctx object s.  call[c]: the record of call c
\* (arguments, what forward did, what backward did).  modcall: the record of the
\* grouping-module call.
FreeCall ==
    [op |-> "", args |-> <<>>, phase |-> "free", exc |-> "", ret |-> None,
     kernel |-> NoKernel, grad_out |-> None, gexc |-> "", gret |-> None,
     gkernel |-> NoKernel]
FreeMod ==
    [module |-> "", use_xyz |-> FALSE, nsample |-> 0, args |-> <<>>, phase |-> "free",
     exc |-> "", ret |-> None]

Ctxs == 1..MaxCtx

\* The saved context kept in one place shared by all calls (as a class
\* attribute or a module global would be).
SharedCtxSlot(c) == 1

\* Function.apply creates one ctx object per call: call c owns ctx object c.
CtxSlot(c) == c

Init ==
    /\ ctx = [s \in Ctxs |-> NoSaved]
    /\ call = [c \in Ctxs |-> FreeCall]
    /\ modcall = FreeMod

CanStart(c) == call[c].phase = "free" /\ modcall.phase = "free"
CanBackward(c, op) == call[c].op = op /\ call[c].phase = "forward"

Began(c, op, args, r) ==
    /\ call' = [call EXCEPT ![c] =
                   [FreeCall EXCEPT !.op = op, !.args = args, !.phase = "forward",
                                    !.exc = r.exc, !.ret = r.ret, !.kernel = r.kernel]]
    /\ ctx' = [ctx EXCEPT ![CtxSlot(c)] = r.saved]
    /\ UNCHANGED modcall

WentBack(c, grad_out, r) ==
    /\ call' = [call EXCEPT ![c].phase = "backward", ![c].grad_out = grad_out,
                            ![c].gexc = r.exc, ![c].gret = r.ret, ![c].gkernel = r.kernel]
    /\ ctx' = [ctx EXCEPT ![CtxSlot(c)] = r.saved]
    /\ UNCHANGED modcall

\* The gradient autograd hands to backward: shaped like forward's output.
GradOut(c, shape) ==
    IF call[c].exc = "" /\ IsTensor(call[c].ret) THEN Full(call[c].ret.shape, 1)
    ELSE Full(shape, 1)

\* ------------------------------------------------------------ actions
FurthestPointSamplingForwardCall(c, P) ==
    /\ CanStart(c)
    /\ \E B \in P.B, N \in 1..MaxN, npoint \in P.K, ct \in P.ct, g \in P.g :
         \E pick \in 0..(N - 1) :
            Began(c, "FurthestPointSampling", <<Xyz(B, N, ct), Scalar(npoint)>>,
                  FurthestPointSamplingForward(Xyz(B, N, ct), npoint, g, pick))

FurthestPointSamplingBackwardCall(c) ==
    /\ CanBackward(c, "FurthestPointSampling")
    /\ WentBack(c, None, FurthestPointSamplingBackward(ctx[CtxSlot(c)]))

GatherPointsForwardCall(c, P) ==
    /\ CanStart(c)
    /\ \E B \in P.B, C \in P.C, N \in 1..MaxN, k \in P.K, pc \in P.ct, ic \in P.ct, g \in P.g :
         \E off \in 0..(N - 1) :
            Began(c, "GatherPoints", <<Features(B, C, N, pc), Idx2(B, k, N, off, ic)>>,
                  GatherPointsForward(Features(B, C, N, pc), Idx2(B, k, N, off, ic), g))

GatherPointsBackwardCall(c) ==
    /\ CanBackward(c, "GatherPoints")
    /\ \E g \in Garbage :
         LET a == call[c].args
             grad_out == GradOut(c, <<a[1].shape[1], a[1].shape[2], a[2].shape[2]>>)
         IN WentBack(c, grad_out, GatherPointsBackward(ctx[CtxSlot(c)], grad_out, g))

ThreeNNForwardCall(c, P) ==
    /\ CanStart(c)
    /\ \E B \in P.B, n \in P.K, m \in 1..MaxN, uc \in P.ct, kc \in P.ct, g \in P.g :
         \E d2 \in SquaredDistances, pick \in 0..(m - 1) :
            Began(c, "ThreeNN", <<Xyz(B, n, uc), Xyz(B, m, kc)>>,
                  ThreeNNForward(Xyz(B, n, uc), Xyz(B, m, kc), g, d2, pick))

ThreeNNBackwardCall(c) ==
    /\ CanBackward(c, "ThreeNN")
    /\ WentBack(c, None, ThreeNNBackward(ctx[CtxSlot(c)]))

ThreeInterpolateForwardCall(c, P) ==
    /\ CanStart(c)
    /\ \E B \in P.B, C \in P.C, m \in 1..MaxN, n \in P.K, g \in P.g,
          pc \in P.ct, ic \in P.ct, wc \in P.ct :
         \E off \in 0..(m - 1) :
            Began(c, "ThreeInterpolate",
                  <<Features(B, C, m, pc), Idx3(B, n, 3, m, off, ic), Weights(B, n, wc)>>,
                  ThreeInterpolateForward(Features(B, C, m, pc), Idx3(B, n, 3, m, off, ic),
                                          Weights(B, n, wc), g))

ThreeInterpolateBackwardCall(c) ==
    /\ CanBackward(c, "ThreeInterpolate")
    /\ \E g \in Garbage :
         LET a == call[c].args
             grad_out == GradOut(c, <<a[1].shape[1], a[1].shape[2], a[2].shape[2]>>)
         IN WentBack(c, grad_out, ThreeInterpolateBackward(ctx[CtxSlot(c)], grad_out, g))

GroupPointsForwardCall(c, P) ==
    /\ CanStart(c)
    /\ \E B \in P.B, C \in P.C, N \in 1..MaxN, npoint \in P.K, nsample \in P.S, g \in P.g,
          pc \in P.ct, ic \in P.ct :
         \E off \in 0..(N - 1) :
            Began(c, "GroupPoints",
                  <<Features(B, C, N, pc), Idx3(B, npoint, nsample, N, off, ic)>>,
                  GroupPointsForward(Features(B, C, N, pc),
                                     Idx3(B, npoint, nsample, N, off, ic), g))

GroupPointsBackwardCall(c) ==
    /\ CanBackward(c, "GroupPoints")
    /\ \E g \in Garbage :
         LET a == call[c].args
             grad_out == GradOut(c, <<a[1].shape[1], a[1].shape[2],
                                      a[2].shape[2], a[2].shape[3]>>)
         IN WentBack(c, grad_out, GroupPointsBackward(ctx[CtxSlot(c)], grad_out, g))

BallQueryForwardCall(c, P) ==
    /\ CanStart(c)
    /\ \E radius \in Radii, nsample \in P.S, B \in P.B, N \in 1..MaxN, npoint \in P.K,
          xc \in P.ct, nc \in P.ct, g \in P.g, ub \in OverflowOutcomes :
         \E pick \in 0..(N - 1) :
            Began(c, "BallQuery",
                  <<Scalar(radius), Scalar(nsample), Xyz(B, N, xc), Xyz(B, npoint, nc)>>,
                  BallQueryForward(radius, nsample, Xyz(B, N, xc), Xyz(B, npoint, nc),
                                   g, pick, ub))

BallQueryBackwardCall(c) ==
    /\ CanBackward(c, "BallQuery")
    /\ WentBack(c, None, BallQueryBackward(ctx[CtxSlot(c)]))

ModuleIdle == modcall.phase = "free" /\ \A c \in Ctxs : call[c].phase = "free"

PointsOptions(B, N) == {None} \cup {Features(B, C, N, TRUE) : C \in 1..MaxC}

QueryAndGroupForwardCall ==
    /\ ModuleIdle
    /\ \E radius \in Radii, nsample \in 1..MaxSample, use_xyz \in BOOLEAN,
          B \in 1..MaxB, N \in 1..MaxN, npoint \in 1..MaxK, g \in Garbage,
          ub \in OverflowOutcomes :
         \E pick \in 0..(N - 1), points \in PointsOptions(B, N) :
            LET r == QueryAndGroupForward(radius, nsample, use_xyz, Xyz(B, N, TRUE),
                                          Xyz(B, npoint, TRUE), points, g, pick, ub)
            IN modcall' = [module |-> "QueryAndGroup", use_xyz |-> use_xyz,
                           nsample |-> nsample,
                           args |-> <<Xyz(B, N, TRUE), Xyz(B, npoint, TRUE), points>>,
                           phase |-> "forward", exc |-> r.exc, ret |-> r.ret]
    /\ UNCHANGED <<ctx, call>>

GroupAllForwardCall ==
    /\ ModuleIdle
    /\ \E use_xyz \in BOOLEAN, B \in 1..MaxB, N \in 1..MaxN, npoint \in 1..MaxK :
         \E points \in PointsOptions(B, N) :
            LET r == GroupAllForward(use_xyz, Xyz(B, N, TRUE), Xyz(B, npoint, TRUE), points)
            IN modcall' = [module |-> "GroupAll", use_xyz |-> use_xyz, nsample |-> 0,
                           args |-> <<Xyz(B, N, TRUE), Xyz(B, npoint, TRUE), points>>,
                           phase |-> "forward", exc |-> r.exc, ret |-> r.ret]
    /\ UNCHANGED <<ctx, call>>

\* One call at a time, over every shape and layout.
Next ==
    \/ FurthestPointSamplingForwardCall(1, Wide)
    \/ FurthestPointSamplingBackwardCall(1)
    \/ GatherPointsForwardCall(1, Wide)
    \/ GatherPointsBackwardCall(1)
    \/ ThreeNNForwardCall(1, Wide)
    \/ ThreeNNBackwardCall(1)
    \/ ThreeInterpolateForwardCall(1, Wide)
    \/ ThreeInterpolateBackwardCall(1)
    \/ GroupPointsForwardCall(1, Wide)
    \/ GroupPointsBackwardCall(1)
    \/ BallQueryForwardCall(1, Wide)
    \/ BallQueryBackwardCall(1)
    \/ QueryAndGroupForwardCall
    \/ GroupAllForwardCall

Spec == Init /\ [][Next]_vars

\* Several calls of the differentiable operators in flight at once, their
\* forwards and backwards interleaved in any order.
NextInterleaved ==
    \E c \in Ctxs :
        \/ GatherPointsForwardCall(c, Narrow)
        \/ GatherPointsBackwardCall(c)
        \/ ThreeInterpolateForwardCall(c, Narrow)
        \/ ThreeInterpolateBackwardCall(c)
        \/ GroupPointsForwardCall(c, Narrow)
        \/ GroupPointsBackwardCall(c)

SpecInterleaved == Init /\ [][NextInterleaved]_vars

\* ------------------------------------------------------------- claims
Started(c, op) == call[c].op = op /\ call[c].phase # "free"
WentBackward(c, op) == call[c].op = op /\ call[c].phase = "backward"
ShapeIs(v, shape) == IsTensor(v) /\ v.shape = shape
IsTupleOfLen(v, n) == v.kind = "tuple" /\ Len(v.items) = n
AllContiguous(args) == \A i \in DOMAIN args : IsTensor(args[i]) => args[i].contig
AllZero(v) == IsTensor(v) /\ \A ix \in DOMAIN v.data : v.data[ix] = 0
Differentiable == {"GatherPoints", "ThreeInterpolate", "GroupPoints"}

\* C1: BallQuery.forward hands the kernel, and returns, an index tensor of shape
\* (B, npoint, nsample): the last dimension is the nsample argument.
C1_BallQueryShape ==
    \A c \in Ctxs : Started(c, "BallQuery") =>
        LET a == call[c].args
            want == <<a[3].shape[1], a[4].shape[2], a[2].val>>
        IN /\ call[c].kernel.entry = "pointnet.ball_query"
           /\ ShapeIs(call[c].kernel.buf, want)
           /\ call[c].exc = ""
           /\ ShapeIs(call[c].ret, want)

\* C2: every operator's forward, given a non-contiguous tensor input, fails with an
\* assertion error before any kernel entry point is reached.
C2_NonContiguousRejected ==
    \A c \in Ctxs : call[c].phase # "free" /\ ~AllContiguous(call[c].args) =>
        /\ call[c].exc = "AssertionError"
        /\ call[c].kernel.entry = ""

\* C3: GroupPoints.forward on contiguous (B,C,N) features and (B,npoint,nsample)
\* indices reaches its kernel and returns a (B,C,npoint,nsample) tensor; backward
\* returns a (B,C,N) gradient and None.
C3_GroupPointsCompletes ==
    \A c \in Ctxs : Started(c, "GroupPoints") /\ AllContiguous(call[c].args) =>
        LET a == call[c].args
        IN /\ call[c].exc = ""
           /\ call[c].kernel.entry # ""
           /\ ShapeIs(call[c].ret, <<a[1].shape[1], a[1].shape[2], a[2].shape[2], a[2].shape[3]>>)
           /\ call[c].phase = "backward" =>
                /\ call[c].gexc = ""
                /\ IsTupleOfLen(call[c].gret, 2)
                /\ ShapeIs(call[c].gret.items[1], a[1].shape)
                /\ call[c].gret.items[2] = None

\* C4: ThreeNN.forward on contiguous (B,n,3) and (B,m,3) points reaches its kernel
\* and returns (distances, indices), both (B,n,3), the distances being the
\* element-wise square root of the squared distances the kernel wrote.
C4_ThreeNNCompletes ==
    \A c \in Ctxs : Started(c, "ThreeNN") /\ AllContiguous(call[c].args) =>
        LET a == call[c].args
            want == <<a[1].shape[1], a[1].shape[2], 3>>
        IN /\ call[c].exc = ""
           /\ call[c].kernel.entry # ""
           /\ IsTupleOfLen(call[c].ret, 2)
           /\ ShapeIs(call[c].ret.items[1], want)
           /\ ShapeIs(call[c].ret.items[2], want)
           /\ \A ix \in Indices(want) :
                call[c].ret.items[1].data[ix] = ISqrt(call[c].kernel.out.items[1].data[ix])

\* C5: ThreeInterpolate.forward on contiguous (B,C,m) features, (B,n,3) indices and
\* (B,n,3) weights reaches its kernel and returns a (B,C,n) tensor; backward
\* returns three slots: a (B,C,m) gradient, None, None.
C5_ThreeInterpolateCompletes ==
    \A c \in Ctxs : Started(c, "ThreeInterpolate") /\ AllContiguous(call[c].args) =>
        LET a == call[c].args
        IN /\ call[c].exc = ""
           /\ call[c].kernel.entry # ""
           /\ ShapeIs(call[c].ret, <<a[1].shape[1], a[1].shape[2], a[2].shape[2]>>)
           /\ call[c].phase = "backward" =>
                /\ call[c].gexc = ""
                /\ IsTupleOfLen(call[c].gret, 3)
                /\ ShapeIs(call[c].gret.items[1], a[1].shape)
                /\ call[c].gret.items[2] = None
                /\ call[c].gret.items[3] = None

\* C6: GatherPoints.forward on (B,C,N) features and (B,k) indices returns a (B,C,k)
\* tensor; backward, given a (B,C,k) output gradient, returns a gradient with the
\* shape (B,C,N) of forward's features, and None for the indices.
C6_GatherPointsShapes ==
    \A c \in Ctxs : Started(c, "GatherPoints") =>
        LET a == call[c].args
        IN /\ call[c].exc = ""
           /\ ShapeIs(call[c].ret, <<a[1].shape[1], a[1].shape[2], a[2].shape[2]>>)
           /\ call[c].phase = "backward" =>
                /\ ShapeIs(call[c].grad_out, <<a[1].shape[1], a[1].shape[2], a[2].shape[2]>>)
                /\ call[c].gexc = ""
                /\ IsTupleOfLen(call[c].gret, 2)
                /\ ShapeIs(call[c].gret.items[1], a[1].shape)
                /\ call[c].gret.items[2] = None

\* A gather whose backward has run, with more source points than gathered ones.
C6_Witness ==
    \E c \in Ctxs :
        /\ WentBackward(c, "GatherPoints")
        /\ call[c].args[1].shape[3] > call[c].args[2].shape[2]
        /\ call[c].args[1].shape[2] > 1
        /\ call[c].gexc = ""

\* C7: FurthestPointSampling.forward on (B,N,3) points and a count k returns a
\* (B,k) index tensor; the backward of each non-differentiable operator
\* (FurthestPointSampling, ThreeNN, BallQuery) returns exactly one None per
\* forward input (2, 2 and 4).
C7_NonDifferentiable ==
    \A c \in Ctxs :
        /\ Started(c, "FurthestPointSampling") =>
              /\ call[c].exc = ""
              /\ ShapeIs(call[c].ret, <<call[c].args[1].shape[1], call[c].args[2].val>>)
        /\ call[c].phase = "backward"
           /\ call[c].op \in {"FurthestPointSampling", "ThreeNN", "BallQuery"} =>
              /\ call[c].gexc = ""
              /\ IsTupleOfLen(call[c].gret, Len(call[c].args))
              /\ \A i \in DOMAIN call[c].gret.items : call[c].gret.items[i] = None

\* The backward of a ball query (four forward inputs) has returned.
C7_Witness ==
    \E c \in Ctxs :
        /\ WentBackward(c, "BallQuery")
        /\ Len(call[c].args) = 4
        /\ call[c].gret.kind = "tuple"

Channels(m) ==
    IF m.args[3] = None THEN 3
    ELSE IF m.use_xyz THEN 3 + m.args[3].shape[2] ELSE m.args[3].shape[2]
HasXyzChannels(m) == m.args[3] = None \/ m.use_xyz

C9_GroupingReturnsTensor ==
    modcall.phase # "free" =>
        LET B == modcall.args[1].shape[1]
            N == modcall.args[1].shape[2]
            npoint == modcall.args[2].shape[2]
        IN /\ modcall.exc = ""
           /\ IsTensor(modcall.ret)
           /\ modcall.module = "QueryAndGroup" =>
                /\ modcall.ret.shape = <<B, Channels(modcall), npoint, modcall.nsample>>
                /\ HasXyzChannels(modcall) =>
                     \A ix \in DOMAIN modcall.ret.data :
                        ix[2] <= 3 => modcall.ret.data[ix] + (ix[3] - 1) \in 0..(N - 1)
           /\ modcall.module = "GroupAll" =>
                /\ modcall.ret.shape = <<B, Channels(modcall), 1, N>>
                /\ HasXyzChannels(modcall) =>
                     \A ix \in DOMAIN modcall.ret.data :
                        ix[2] <= 3 => modcall.ret.data[ix] = modcall.args[1].data[<<ix[1], ix[4], ix[2]>>]

\* C10: in the backward of every differentiable operator the gradient buffer is all
\* zeros when it is handed to the gradient kernel, so every source position that
\* no index refers to has gradient 0 in the tensor returned.
Referenced(idx, b, n) ==
    \E ix \in DOMAIN idx.data : ix[1] = b /\ idx.data[ix] = n - 1

C10_GradientBufferZeroed ==
    \A c \in Ctxs : call[c].op \in Differentiable /\ call[c].phase = "backward" =>
        /\ call[c].gkernel.entry # "" => AllZero(call[c].gkernel.buf)
        /\ call[c].gexc = "" =>
              \A ix \in DOMAIN call[c].gret.items[1].data :
                  ~Referenced(call[c].args[2], ix[1], ix[3]) =>
                      call[c].gret.items[1].data[ix] = 0

====
